---- MODULE Spec2Model ----
(***************************************************************************)
(* Model of the_snake.py: the Snake object, the two food objects, the      *)
(* five obstacles and the game loop of main().  Positions are pixel        *)
(* pairs <<x, y>>, directions are unit vectors <<dx, dy>>, and Python's    *)
(* None is the empty tuple (falsy, like None, in "if self.next_direction").*)
(***************************************************************************)
EXTENDS Integers, Sequences, FiniteSets, TLC

\* ------------------------------------------------------------------------
\* Program constants (the_snake.py lines 7-16)
\* ------------------------------------------------------------------------
SCREEN_WIDTH == 640

SCREEN_HEIGHT == 480

GRID_SIZE == 20

GRID_WIDTH == SCREEN_WIDTH \div GRID_SIZE

GRID_HEIGHT == SCREEN_HEIGHT \div GRID_SIZE

UP == <<0, -1>>

DOWN == <<0, 1>>

LEFT == <<-1, 0>>

RIGHT == <<1, 0>>

None == <<>>

Directions == {UP, DOWN, LEFT, RIGHT}

\* ------------------------------------------------------------------------
\* Bounds of the model
\* ------------------------------------------------------------------------
\* number of iterations of the game loop that are explored
MaxTicks == 5

\* number of events one call of pygame.event.get() may return
MaxEvents == 2

\* the cells randint() is allowed to draw (x and y are drawn independently,
\* so the draws form a rectangle of cells): the start cell (320,240), the
\* 2 x 2 block it lies in, and the column and row of the obstacle (300,300)
SampleXs == {300, 320}

SampleYs == {240, 260, 300}

\* ------------------------------------------------------------------------
\* Obstacles (main, lines 247-253); never moved afterwards
\* ------------------------------------------------------------------------
obstacles == << <<100, 100>>, <<200, 200>>, <<300, 300>>, <<400, 100>>, <<500, 200>> >>

ObstaclePositions == {obstacles[i] : i \in 1 .. Len(obstacles)}

\* ------------------------------------------------------------------------
\* Apple.randomize_position / IncorrectFood.randomize_position
\* (lines 69-86 and 107-124, the same code): the positions with which the
\* "while True" loop can exit.  A sample is (randint * GRID_SIZE,
\* randint * GRID_SIZE); the loop continues when obstacles is non-empty and
\* some obstacle sits on the sample, and breaks otherwise.
\* ------------------------------------------------------------------------
randomize_position_any(obs) ==
    {<<x, y>> : x \in SampleXs, y \in SampleYs}

randomize_position(obs) ==
    {p \in {<<x, y>> : x \in SampleXs, y \in SampleYs} :
        ~ (Len(obs) > 0 /\ \E i \in 1 .. Len(obs) : obs[i] = p)}

\* ------------------------------------------------------------------------
\* Snake (lines 151-219) as a record; every method is an operator from the
\* snake before the call to the snake after it.
\* ------------------------------------------------------------------------
initial_position == <<SCREEN_WIDTH \div 2, SCREEN_HEIGHT \div 2>>

\* Snake.__init__, lines 154-161
NewSnake ==
    [positions |-> <<initial_position>>,
     direction |-> RIGHT,
     next_direction |-> None,
     length |-> 1]

\* Snake.update_direction, lines 163-170
update_direction_reversing(s) ==
    IF s.next_direction # None
      THEN [s EXCEPT !.direction = s.next_direction, !.next_direction = None]
      ELSE s

update_direction(s) ==
    IF s.next_direction # None
      THEN LET opposite_direction == <<-s.next_direction[1], -s.next_direction[2]>>
           IN  [s EXCEPT !.direction = IF opposite_direction # s.direction
                                          THEN s.next_direction
                                          ELSE s.direction,
                         !.next_direction = None]
      ELSE s

\* list.pop(): the list without its last element
Pop(seq) == SubSeq(seq, 1, Len(seq) - 1)

\* Snake.move, lines 172-186; positions[0] of an empty list raises
\* IndexError before anything is assigned, see MoveRaises
MoveRaises(s) == s.positions = <<>>

new_head_unwrapped(s) ==
    <<s.positions[1][1] + s.direction[1] * GRID_SIZE,
      s.positions[1][2] + s.direction[2] * GRID_SIZE>>

new_head_one_pixel(s) ==
    <<(s.positions[1][1] + s.direction[1]) % SCREEN_WIDTH,
      (s.positions[1][2] + s.direction[2]) % SCREEN_HEIGHT>>

new_head(s) ==
    <<(s.positions[1][1] + s.direction[1] * GRID_SIZE) % SCREEN_WIDTH,
      (s.positions[1][2] + s.direction[2] * GRID_SIZE) % SCREEN_HEIGHT>>

move_always_pop(s) ==
    [s EXCEPT !.positions = Pop(<<new_head(s)>> \o s.positions)]

move(s) ==
    LET inserted == <<new_head(s)>> \o s.positions
    IN  [s EXCEPT !.positions = IF Len(inserted) > s.length
                                  THEN Pop(inserted)
                                  ELSE inserted]

\* Snake.grow, lines 188-190
grow_by_two(s) == [s EXCEPT !.length = s.length + 2]

grow(s) == [s EXCEPT !.length = s.length + 1]

\* Snake.shrink, lines 192-196
shrink_keeps_tail(s) ==
    IF s.length > 1
      THEN [s EXCEPT !.length = s.length - 1]
      ELSE s

shrink_pops_head(s) ==
    IF s.length > 1
      THEN [s EXCEPT !.length = s.length - 1, !.positions = Tail(s.positions)]
      ELSE s

shrink(s) ==
    IF s.length > 1
      THEN [s EXCEPT !.length = s.length - 1, !.positions = Pop(s.positions)]
      ELSE s

\* Snake.get_head_position, lines 205-211
get_head_position(s) == s.positions[1]

\* Snake.reset, lines 213-219
reset_keeps_body(s) ==
    [positions |-> <<initial_position>> \o s.positions,
     direction |-> RIGHT,
     next_direction |-> None,
     length |-> 1]

reset(s) ==
    [positions |-> <<initial_position>>,
     direction |-> RIGHT,
     next_direction |-> None,
     length |-> 1]

\* ------------------------------------------------------------------------
\* handle_keys, lines 222-240: the events of one pygame.event.get() are
\* handled in order; QUIT raises SystemExit at once, a direction key
\* overwrites next_direction, any other event is skipped.
\* ------------------------------------------------------------------------
Events == {"QUIT", "K_UP", "K_DOWN", "K_LEFT", "K_RIGHT", "OTHER"}

EventLists == UNION {[1 .. n -> Events] : n \in 0 .. MaxEvents}

KeyDirection(e) ==
    CASE e = "K_UP" -> UP
      [] e = "K_DOWN" -> DOWN
      [] e = "K_LEFT" -> LEFT
      [] e = "K_RIGHT" -> RIGHT
      [] OTHER -> None

RECURSIVE handle_keys_ignoring_reverse(_, _)
handle_keys_ignoring_reverse(s, evs) ==
    IF evs = <<>>
      THEN [snake |-> s, quit |-> FALSE]
      ELSE IF Head(evs) = "QUIT"
             THEN [snake |-> s, quit |-> TRUE]
             ELSE IF /\ KeyDirection(Head(evs)) # None
                     /\ KeyDirection(Head(evs)) # <<-s.direction[1], -s.direction[2]>>
                    THEN handle_keys_ignoring_reverse(
                             [s EXCEPT !.next_direction = KeyDirection(Head(evs))], Tail(evs))
                    ELSE handle_keys_ignoring_reverse(s, Tail(evs))

RECURSIVE handle_keys_turning_at_once(_, _)
handle_keys_turning_at_once(s, evs) ==
    IF evs = <<>>
      THEN [snake |-> s, quit |-> FALSE]
      ELSE IF Head(evs) = "QUIT"
             THEN [snake |-> s, quit |-> TRUE]
             ELSE IF KeyDirection(Head(evs)) # None
                    THEN handle_keys_turning_at_once(
                             [s EXCEPT !.direction = KeyDirection(Head(evs))], Tail(evs))
                    ELSE handle_keys_turning_at_once(s, Tail(evs))

RECURSIVE handle_keys(_, _)
handle_keys(s, evs) ==
    IF evs = <<>>
      THEN [snake |-> s, quit |-> FALSE]
      ELSE IF Head(evs) = "QUIT"
             THEN [snake |-> s, quit |-> TRUE]
             ELSE IF KeyDirection(Head(evs)) # None
                    THEN handle_keys([s EXCEPT !.next_direction = KeyDirection(Head(evs))],
                                     Tail(evs))
                    ELSE handle_keys(s, Tail(evs))

\* ------------------------------------------------------------------------
\* State of main()
\* ------------------------------------------------------------------------
VARIABLES
    snake,            \* the Snake object
    apple,            \* apple.position
    incorrect_food,   \* incorrect_food.position
    pc,               \* the statement of the loop body that runs next
    ticks,            \* completed iterations of the loop
    start,            \* snake, apple and food when the current iteration began
    fired,            \* the checks of lines 264-287 that fired in this iteration
    eaten             \* the cell on which the apple was eaten in this iteration

vars == <<snake, apple, incorrect_food, pc, ticks, start, fired, eaten>>

\* main, lines 246-257
Init ==
    /\ snake = NewSnake
    /\ apple \in randomize_position(obstacles)
    /\ incorrect_food \in randomize_position(obstacles)
    /\ pc = "handle_keys"
    /\ ticks = 0
    /\ start = [snake |-> snake, apple |-> apple, incorrect_food |-> incorrect_food]
    /\ fired = {}
    /\ eaten = None

\* line 259: handle_keys(snake) with any list of events; SystemExit leaves
\* the loop.  start, fired and eaten restart with the iteration.
HandleKeys ==
    /\ pc = "handle_keys"
    /\ ticks < MaxTicks
    /\ \E r \in {handle_keys(snake, evs) : evs \in EventLists} :
          /\ snake' = r.snake
          /\ pc' = IF r.quit THEN "quit" ELSE "update_direction"
    /\ start' = [snake |-> snake, apple |-> apple, incorrect_food |-> incorrect_food]
    /\ fired' = {}
    /\ eaten' = None
    /\ UNCHANGED <<apple, incorrect_food, ticks>>

\* line 260
UpdateDirection ==
    /\ pc = "update_direction"
    /\ snake' = update_direction(snake)
    /\ pc' = "move"
    /\ UNCHANGED <<apple, incorrect_food, ticks, start, fired, eaten>>

\* line 261
Move ==
    /\ pc = "move"
    /\ ~ MoveRaises(snake)
    /\ snake' = move(snake)
    /\ pc' = "obstacle_check"
    /\ UNCHANGED <<apple, incorrect_food, ticks, start, fired, eaten>>

\* line 261 with an empty positions list: line 177 raises IndexError, which
\* nothing catches
MoveIndexError ==
    /\ pc = "move"
    /\ MoveRaises(snake)
    /\ pc' = "error"
    /\ UNCHANGED <<snake, apple, incorrect_food, ticks, start, fired, eaten>>

\* lines 264-270
ObstacleCheck_without_reset ==
    /\ pc = "obstacle_check"
    /\ IF \E i \in 1 .. Len(obstacles) : get_head_position(snake) = obstacles[i]
         THEN /\ apple' \in randomize_position(obstacles)
              /\ incorrect_food' \in randomize_position(obstacles)
              /\ fired' = fired \cup {"obstacle"}
              /\ UNCHANGED snake
         ELSE UNCHANGED <<snake, apple, incorrect_food, fired>>
    /\ pc' = "self_check"
    /\ UNCHANGED <<ticks, start, eaten>>

ObstacleCheck ==
    /\ pc = "obstacle_check"
    /\ IF \E i \in 1 .. Len(obstacles) : get_head_position(snake) = obstacles[i]
         THEN /\ snake' = reset(snake)
              /\ apple' \in randomize_position(obstacles)
              /\ incorrect_food' \in randomize_position(obstacles)
              /\ fired' = fired \cup {"obstacle"}
         ELSE UNCHANGED <<snake, apple, incorrect_food, fired>>
    /\ pc' = "self_check"
    /\ UNCHANGED <<ticks, start, eaten>>

\* lines 273-276
SelfCheck_without_reset ==
    /\ pc = "self_check"
    /\ IF \E i \in 2 .. Len(snake.positions) : snake.positions[i] = get_head_position(snake)
         THEN /\ apple' \in randomize_position(obstacles)
              /\ incorrect_food' \in randomize_position(obstacles)
              /\ fired' = fired \cup {"self"}
              /\ UNCHANGED snake
         ELSE UNCHANGED <<snake, apple, incorrect_food, fired>>
    /\ pc' = "apple_check"
    /\ UNCHANGED <<ticks, start, eaten>>

SelfCheck ==
    /\ pc = "self_check"
    /\ IF \E i \in 2 .. Len(snake.positions) : snake.positions[i] = get_head_position(snake)
         THEN /\ snake' = reset(snake)
              /\ apple' \in randomize_position(obstacles)
              /\ incorrect_food' \in randomize_position(obstacles)
              /\ fired' = fired \cup {"self"}
         ELSE UNCHANGED <<snake, apple, incorrect_food, fired>>
    /\ pc' = "apple_check"
    /\ UNCHANGED <<ticks, start, eaten>>

\* lines 279-282
AppleCheck ==
    /\ pc = "apple_check"
    /\ IF get_head_position(snake) = apple
         THEN /\ snake' = grow(snake)
              /\ apple' \in randomize_position(obstacles)
              /\ incorrect_food' \in randomize_position(obstacles)
              /\ fired' = fired \cup {"apple"}
              /\ eaten' = apple
         ELSE UNCHANGED <<snake, apple, incorrect_food, fired, eaten>>
    /\ pc' = "food_check"
    /\ UNCHANGED <<ticks, start>>

\* lines 285-287
FoodCheck_redraws_apple ==
    /\ pc = "food_check"
    /\ IF get_head_position(snake) = incorrect_food
         THEN /\ snake' = shrink(snake)
              /\ apple' \in randomize_position(obstacles)
              /\ incorrect_food' \in randomize_position(obstacles)
              /\ fired' = fired \cup {"food"}
         ELSE UNCHANGED <<snake, apple, incorrect_food, fired>>
    /\ pc' = "draw"
    /\ UNCHANGED <<ticks, start, eaten>>

FoodCheck ==
    /\ pc = "food_check"
    /\ IF get_head_position(snake) = incorrect_food
         THEN /\ snake' = shrink(snake)
              /\ incorrect_food' \in randomize_position(obstacles)
              /\ fired' = fired \cup {"food"}
         ELSE UNCHANGED <<snake, incorrect_food, fired>>
    /\ pc' = "draw"
    /\ UNCHANGED <<apple, ticks, start, eaten>>

\* lines 290-298: drawing and clock.tick change no game state
Draw ==
    /\ pc = "draw"
    /\ pc' = "handle_keys"
    /\ ticks' = ticks + 1
    /\ UNCHANGED <<snake, apple, incorrect_food, start, fired, eaten>>

Next ==
    \/ HandleKeys
    \/ UpdateDirection
    \/ Move
    \/ MoveIndexError
    \/ ObstacleCheck
    \/ SelfCheck
    \/ AppleCheck
    \/ FoodCheck
    \/ Draw

Spec == Init /\ [][Next]_vars

\* ------------------------------------------------------------------------
\* The loop of main() taken up at the top of a later iteration (line 258):
\* the snake has one segment, has steered to the start cell or to a corner
\* of the screen without eating, and heads any way; length is 1, or 2 when
\* the iteration before ate an apple on that cell (grow() adds the segment
\* with the next move).  Every such state is reached from Init (the state
\* after construction is among them); the border itself is 12 or more
\* iterations away from the start cell.
\* ------------------------------------------------------------------------
StartCells ==
    {initial_position, <<0, 0>>, <<SCREEN_WIDTH - GRID_SIZE, SCREEN_HEIGHT - GRID_SIZE>>}

InitBorder ==
    /\ snake \in {[positions |-> <<c>>, direction |-> d, next_direction |-> None, length |-> l] :
                    c \in StartCells, d \in Directions, l \in 1 .. 2}
    /\ snake.length = 2 => snake.positions[1] # initial_position
    /\ apple \in randomize_position(obstacles)
    /\ incorrect_food \in randomize_position(obstacles)
    /\ pc = "handle_keys"
    /\ ticks = 0
    /\ start = [snake |-> snake, apple |-> apple, incorrect_food |-> incorrect_food]
    /\ fired = {}
    /\ eaten = None

SpecBorder == InitBorder /\ [][Next]_vars

\* ------------------------------------------------------------------------
\* The retry loop of randomize_position (lines 78-86 and 116-124) step by
\* step.  Apple.__init__ and IncorrectFood.__init__ set position = (0, 0)
\* and call it (lines 66-67, 104-105; main, lines 254-255); the loop of
\* main calls it again for the apple and then the food (lines 269-270,
\* 275-276, 281-282) or for the food alone (line 287).  One step is one
\* pass of "while True": a sample is assigned to position, and the pass
\* ends in "continue" when an obstacle sits on it and in "break" otherwise.
\* The snake takes no part; ticks counts the calls after construction and
\* fired records the loops that went round again in the current call.
\* ------------------------------------------------------------------------
Samples == {<<x, y>> : x \in SampleXs, y \in SampleYs}

\* lines 82-84 (120-122): "if obstacles: if any(obstacle.position ==
\* self.position ...)"
hits_obstacle_never(position, obs) == FALSE

hits_obstacle(position, obs) ==
    Len(obs) > 0 /\ \E i \in 1 .. Len(obs) : obs[i] = position

InitPlace ==
    /\ snake = NewSnake
    /\ apple = <<0, 0>>
    /\ incorrect_food = <<0, 0>>
    /\ pc = "apple_loop"
    /\ ticks = 0
    /\ start = [snake |-> snake, apple |-> apple, incorrect_food |-> incorrect_food]
    /\ fired = {}
    /\ eaten = None

\* Apple.randomize_position, lines 79-85: the sample is on an obstacle
AppleSampleContinue ==
    /\ pc = "apple_loop"
    /\ \E p \in Samples :
          /\ hits_obstacle(p, obstacles)
          /\ apple' = p
    /\ fired' = fired \cup {"apple_retry"}
    /\ UNCHANGED <<snake, incorrect_food, pc, ticks, start, eaten>>

\* Apple.randomize_position, lines 79-86: the sample is free; the caller
\* goes on to place the incorrect food
AppleSampleBreak ==
    /\ pc = "apple_loop"
    /\ \E p \in Samples :
          /\ ~ hits_obstacle(p, obstacles)
          /\ apple' = p
    /\ pc' = "food_loop"
    /\ UNCHANGED <<snake, incorrect_food, ticks, start, fired, eaten>>

\* IncorrectFood.randomize_position, lines 117-123
FoodSampleContinue ==
    /\ pc = "food_loop"
    /\ \E p \in Samples :
          /\ hits_obstacle(p, obstacles)
          /\ incorrect_food' = p
    /\ fired' = fired \cup {"food_retry"}
    /\ UNCHANGED <<snake, apple, pc, ticks, start, eaten>>

\* IncorrectFood.randomize_position, lines 117-124
FoodSampleBreak ==
    /\ pc = "food_loop"
    /\ \E p \in Samples :
          /\ ~ hits_obstacle(p, obstacles)
          /\ incorrect_food' = p
    /\ pc' = "placed"
    /\ UNCHANGED <<snake, apple, ticks, start, fired, eaten>>

\* main, lines 269-270, 275-276, 281-282: both are placed again
PlaceBothAgain ==
    /\ pc = "placed"
    /\ ticks < MaxTicks
    /\ pc' = "apple_loop"
    /\ ticks' = ticks + 1
    /\ fired' = {}
    /\ UNCHANGED <<snake, apple, incorrect_food, start, eaten>>

\* main, line 287: the incorrect food alone is placed again
PlaceFoodAgain ==
    /\ pc = "placed"
    /\ ticks < MaxTicks
    /\ pc' = "food_loop"
    /\ ticks' = ticks + 1
    /\ fired' = {}
    /\ UNCHANGED <<snake, apple, incorrect_food, start, eaten>>

NextPlace ==
    \/ AppleSampleContinue
    \/ AppleSampleBreak
    \/ FoodSampleContinue
    \/ FoodSampleBreak
    \/ PlaceBothAgain
    \/ PlaceFoodAgain

\* fair sampling: randint does not avoid the free cells for ever
SpecPlace ==
    /\ InitPlace
    /\ [][NextPlace]_vars
    /\ WF_vars(AppleSampleBreak)
    /\ WF_vars(FoodSampleBreak)

\* ------------------------------------------------------------------------
\* Properties
\* ------------------------------------------------------------------------
\* a position is a cell of the 640 x 480 screen
OnGrid(p) ==
    /\ p[1] % GRID_SIZE = 0 /\ 0 <= p[1] /\ p[1] < SCREEN_WIDTH
    /\ p[2] % GRID_SIZE = 0 /\ 0 <= p[2] /\ p[2] < SCREEN_HEIGHT

\* the iteration has run all four checks and is about to draw
EndOfTick == pc = "draw"

\* a fatal collision (obstacle or self) fired in this iteration
Fatal == fired \cap {"obstacle", "self"} # {}

Opposite(d) == <<-d[1], -d[2]>>

\* C1: the snake cannot vanish: positions is never empty, shrink() never
\* removes the only segment, also right after grow() in the same iteration.
\* The loop reaches a snake without segments.
C1_SnakeNeverVanishes == Len(snake.positions) >= 1

\* C2: grid alignment: at the end of every iteration every snake segment,
\* the apple, the incorrect food and every obstacle has x a multiple of 20
\* in [0, 640) and y a multiple of 20 in [0, 480).
C2_GridAlignment ==
    EndOfTick =>
        /\ \A i \in 1 .. Len(snake.positions) : OnGrid(snake.positions[i])
        /\ OnGrid(apple)
        /\ OnGrid(incorrect_food)
        /\ \A i \in 1 .. Len(obstacles) : OnGrid(obstacles[i])

\* an iteration ended in which the head left the screen on the left or at
\* the top and came back in on the other side
C2_Witness ==
    /\ EndOfTick
    /\ fired = {}
    /\ \/ start.snake.positions[1][1] = 0 /\ snake.positions[1][1] = SCREEN_WIDTH - GRID_SIZE
       \/ start.snake.positions[1][2] = 0 /\ snake.positions[1][2] = SCREEN_HEIGHT - GRID_SIZE

\* C3: in every state, from construction on and after any respawn, neither
\* the apple nor the incorrect food is on the cell of one of the obstacles.
C3_FoodOffObstacles ==
    /\ apple \notin ObstaclePositions
    /\ incorrect_food \notin ObstaclePositions

\* both foods were placed anew by a reset in this iteration
C3_Witness ==
    /\ EndOfTick
    /\ "obstacle" \in fired
    /\ apple # start.apple
    /\ incorrect_food # start.incorrect_food

\* C4: after an iteration in which a fatal collision fired the snake is
\* exactly one segment at (320,240) heading RIGHT, whatever the apple and
\* incorrect-food checks did afterwards.  The two checks can take the
\* segment away again (C1).
C4_FatalCollisionLeavesInitialSnake ==
    (EndOfTick /\ Fatal) =>
        /\ snake.positions = <<initial_position>>
        /\ snake.direction = RIGHT

\* C5 as claimed: when the head lands on the apple and no fatal collision
\* fires, length at the end of the iteration is one more than at its start.
C5_AppleTickGrowsByOne ==
    (EndOfTick /\ "apple" \in fired /\ ~ Fatal) =>
        snake.length = start.snake.length + 1

\* C5 amended: when the head lands on the apple and no fatal collision
\* fires, length at the end of the iteration is one more than at its start
\* if the incorrect-food check does not fire in the iteration, and equal to
\* the length at its start if it does (the new incorrect food was drawn on
\* the head and shrink() took the growth back).
C5_AppleTickGrowsUnlessFoodEaten ==
    (EndOfTick /\ "apple" \in fired /\ ~ Fatal) =>
        snake.length = start.snake.length + (IF "food" \in fired THEN 0 ELSE 1)

\* a snake of two or more ate the apple and nothing else happened
C5_Witness ==
    /\ EndOfTick
    /\ fired = {"apple"}
    /\ start.snake.length >= 2
    /\ snake.length = start.snake.length + 1

\* C6 as claimed: when the head lands on the apple, the apple's position at
\* the end of the iteration differs from the cell on which it was eaten.
C6_AppleLeavesEatenCell ==
    (EndOfTick /\ "apple" \in fired) => apple # eaten

\* C6 amended: when the head lands on the apple, the apple's position at the
\* end of the iteration is a cell of the grid that holds no obstacle; it may
\* be the cell on which the apple was eaten.
C6_AppleRespawnsOffObstacles ==
    (EndOfTick /\ "apple" \in fired) =>
        /\ OnGrid(apple)
        /\ apple \notin ObstaclePositions

\* the apple was eaten and placed on another cell
C6_Witness ==
    /\ EndOfTick
    /\ "apple" \in fired
    /\ eaten = start.apple
    /\ apple # eaten

\* C7: in every state length is at least 1 and the number of stored
\* segments does not exceed it.
C7_SegmentsWithinLength ==
    /\ snake.length >= 1
    /\ Len(snake.positions) <= snake.length

\* a snake that grew to three or more was shrunk in this iteration
C7_Witness ==
    /\ EndOfTick
    /\ fired = {"food"}
    /\ start.snake.length >= 3
    /\ Len(snake.positions) = snake.length

\* C8: update_direction() in any state: afterwards direction is the
\* buffered direction unless that is the exact opposite of the current one
\* or nothing is buffered, and then it is the current one; next_direction is
\* empty afterwards, and so it is at the end of every iteration.
C8_UpdateDirectionNeverReverses ==
    /\ LET d == snake.direction
           n == snake.next_direction
           t == update_direction(snake)
       IN  /\ t.direction = (IF n = None THEN d ELSE IF n = Opposite(d) THEN d ELSE n)
           /\ t.direction # Opposite(d)
           /\ t.next_direction = None
           /\ t.positions = snake.positions
           /\ t.length = snake.length
    /\ EndOfTick => snake.next_direction = None
    /\ pc = "move" => snake.direction # Opposite(start.snake.direction)

\* update_direction() has turned the snake by a quarter
C8_Witness ==
    /\ pc = "move"
    /\ snake.next_direction = None
    /\ snake.direction # start.snake.direction

\* C9: shrink() in any state: with length > 1 it takes one from length and
\* removes the last element of positions, the others staying in order; with
\* length = 1 it changes nothing; direction and next_direction stay.
C9_ShrinkRemovesTail ==
    LET t == shrink(snake)
        n == Len(snake.positions)
    IN  IF snake.length > 1
          THEN /\ n >= 1
               /\ t.length = snake.length - 1
               /\ Len(t.positions) = n - 1
               /\ \A i \in 1 .. (n - 1) : t.positions[i] = snake.positions[i]
               /\ t.direction = snake.direction
               /\ t.next_direction = snake.next_direction
          ELSE t = snake

\* the incorrect-food check has shrunk a snake longer than one
C9_Witness ==
    /\ EndOfTick
    /\ fired = {"food"}
    /\ start.snake.length > 1
    /\ snake.length = start.snake.length - 1
    /\ Len(snake.positions) = Len(start.snake.positions) - 1

\* C10: in any state with len(positions) = length: move() keeps the number
\* of segments (new head in front, the others moved back by one, the tail
\* dropped); grow() leaves positions alone, and move() after grow() gives
\* one segment more, as many as the new length, the old tail still last.
C10_LazyGrowth ==
    (Len(snake.positions) = snake.length) =>
        LET n == Len(snake.positions)
            m == move(snake)
            g == grow(snake)
            gm == move(grow(snake))
        IN  /\ Len(m.positions) = n
            /\ \A i \in 2 .. n : m.positions[i] = snake.positions[i - 1]
            /\ m.length = snake.length
            /\ g.positions = snake.positions
            /\ g.length = snake.length + 1
            /\ Len(gm.positions) = n + 1
            /\ Len(gm.positions) = gm.length
            /\ gm.positions[n + 1] = snake.positions[n]
            /\ \A i \in 2 .. (n + 1) : gm.positions[i] = snake.positions[i - 1]

\* the move of this iteration added the segment the apple of the last
\* iteration was eaten for
C10_Witness ==
    /\ pc = "obstacle_check"
    /\ Len(start.snake.positions) + 1 = start.snake.length
    /\ Len(snake.positions) = Len(start.snake.positions) + 1
    /\ Len(snake.positions) = snake.length
    /\ snake.positions[Len(snake.positions)] = start.snake.positions[Len(start.snake.positions)]

\* C11: the loop stops only because of a quit event: no iteration fails for
\* another reason, such as move() or get_head_position() reading the head
\* of a snake without segments.  move() does raise after the snake of C1
\* has lost its only segment.
C11_LoopStopsOnlyOnQuit == pc # "error"

\* the four direction keys of handle_keys
DirectionKeys == {"K_UP", "K_DOWN", "K_LEFT", "K_RIGHT"}

\* the loop is about to call handle_keys
AtHandleKeys == pc = "handle_keys"

\* C12 as claimed: a key press for the exact opposite of the current
\* direction is ignored when it is handled (next_direction stays as it
\* was), so a perpendicular key followed by the reverse key in one drain
\* leaves the perpendicular direction buffered and update_direction()
\* applies it.
C12_ReverseIgnoredWhenRequested ==
    AtHandleKeys =>
        \A k1, k2 \in DirectionKeys :
            (KeyDirection(k2) = Opposite(snake.direction)) =>
                /\ handle_keys(snake, <<k2>>).snake.next_direction = snake.next_direction
                /\ (KeyDirection(k1) \notin {snake.direction, Opposite(snake.direction)}) =>
                      LET r == handle_keys(snake, <<k1, k2>>)
                      IN  /\ r.snake.next_direction = KeyDirection(k1)
                          /\ update_direction(r.snake).direction = KeyDirection(k1)

\* C12 amended: a key press for the exact opposite of the current direction
\* is buffered like any other direction key: after a drain without a quit
\* event next_direction is the direction of the last direction key handled.
\* The reverse is rejected only by update_direction(), so a perpendicular
\* key followed by the reverse key in one drain leaves the reverse buffered,
\* and update_direction() then keeps the current direction and empties the
\* buffer: the perpendicular press is lost.
C12_ReverseBufferedThenRejected ==
    AtHandleKeys =>
        \A k1, k2 \in DirectionKeys :
            LET r1 == handle_keys(snake, <<k2>>)
                r2 == handle_keys(snake, <<k1, k2>>)
                r3 == handle_keys(snake, <<k2, "OTHER">>)
            IN  /\ ~ r1.quit /\ ~ r2.quit /\ ~ r3.quit
                /\ r1.snake.next_direction = KeyDirection(k2)
                /\ r2.snake.next_direction = KeyDirection(k2)
                /\ r3.snake.next_direction = KeyDirection(k2)
                /\ r2.snake.positions = snake.positions
                /\ r2.snake.direction = snake.direction
                /\ r2.snake.length = snake.length
                /\ (KeyDirection(k2) = Opposite(snake.direction)) =>
                      /\ update_direction(r2.snake).direction = snake.direction
                      /\ update_direction(r2.snake).next_direction = None

\* handle_keys has buffered the reverse of the current direction
C12_Witness ==
    /\ pc = "update_direction"
    /\ snake.next_direction = Opposite(snake.direction)
    /\ snake.direction # RIGHT

\* C13: at most one reset per iteration: when the obstacle check has fired
\* and reset the snake, the self-collision check of the same iteration runs
\* against the one-segment snake and does not fire.
C13_AtMostOneResetPerTick ==
    /\ ~ ({"obstacle", "self"} \subseteq fired)
    /\ (pc = "self_check" /\ "obstacle" \in fired) =>
          /\ Len(snake.positions) = 1
          /\ \A i \in 2 .. Len(snake.positions) : snake.positions[i] # snake.positions[1]

\* a snake of two or more segments ran into an obstacle and the iteration
\* went through the self-collision check to its end
C13_Witness ==
    /\ EndOfTick
    /\ "obstacle" \in fired
    /\ Len(start.snake.positions) >= 2

\* two cells one step apart on the torus: one cell (20 px) along exactly
\* one axis, modulo 640 in x and modulo 480 in y
ToroidalStep(p, q) ==
    LET dx == (p[1] - q[1]) % SCREEN_WIDTH
        dy == (p[2] - q[2]) % SCREEN_HEIGHT
    IN  \/ dx \in {GRID_SIZE, SCREEN_WIDTH - GRID_SIZE} /\ dy = 0
        \/ dx = 0 /\ dy \in {GRID_SIZE, SCREEN_HEIGHT - GRID_SIZE}

\* C14: body contiguity: in every state each two consecutive elements of
\* positions are one toroidal step apart.
C14_BodyContiguity ==
    \A i \in 1 .. (Len(snake.positions) - 1) :
        ToroidalStep(snake.positions[i], snake.positions[i + 1])

\* a snake of two segments lies across the border of the screen
C14_Witness ==
    /\ EndOfTick
    /\ Len(snake.positions) = 2
    /\ \/ snake.positions[1][1] - snake.positions[2][1] \in {SCREEN_WIDTH - GRID_SIZE, GRID_SIZE - SCREEN_WIDTH}
       \/ snake.positions[1][2] - snake.positions[2][2] \in {SCREEN_HEIGHT - GRID_SIZE, GRID_SIZE - SCREEN_HEIGHT}

\* C15: frame condition on the apple: across an iteration in which neither
\* a fatal collision nor the apple check fires the apple keeps its
\* position, also when only the incorrect food is eaten.  (The five
\* obstacle positions are never assigned after line 253; obstacles is a
\* constant of the model.)
C15_AppleFrame ==
    (EndOfTick /\ ~ Fatal /\ "apple" \notin fired) =>
        /\ apple = start.apple
        /\ eaten = None

\* only the incorrect food was eaten and placed anew
C15_Witness ==
    /\ EndOfTick
    /\ fired = {"food"}
    /\ incorrect_food # start.incorrect_food
    /\ apple = start.apple

\* every cell of the 32 x 24 grid
AllCells ==
    {<<c * GRID_SIZE, r * GRID_SIZE>> : c \in 0 .. (GRID_WIDTH - 1), r \in 0 .. (GRID_HEIGHT - 1)}

\* the cell one step from h in direction d on the torus, by cases
WrappedStep(h, d) ==
    <<IF d = RIGHT THEN (IF h[1] = SCREEN_WIDTH - GRID_SIZE THEN 0 ELSE h[1] + GRID_SIZE)
      ELSE IF d = LEFT THEN (IF h[1] = 0 THEN SCREEN_WIDTH - GRID_SIZE ELSE h[1] - GRID_SIZE)
      ELSE h[1],
      IF d = DOWN THEN (IF h[2] = SCREEN_HEIGHT - GRID_SIZE THEN 0 ELSE h[2] + GRID_SIZE)
      ELSE IF d = UP THEN (IF h[2] = 0 THEN SCREEN_HEIGHT - GRID_SIZE ELSE h[2] - GRID_SIZE)
      ELSE h[2]>>

\* C16: move() is toroidal: for every head on the grid and every direction
\* the new head is one step further modulo 640 in x and modulo 480 in y,
\* never negative: RIGHT from x = 620 gives 0, LEFT from 0 gives 620, DOWN
\* from y = 460 gives 0, UP from 0 gives 460, the other axis unchanged.
\* Checked on the head every move() of the loop has produced, and on every
\* cell of the grid with every direction where the loop starts.
C16_MoveIsToroidal ==
    /\ pc = "obstacle_check" =>
          /\ snake.positions[1] = WrappedStep(start.snake.positions[1], snake.direction)
          /\ OnGrid(snake.positions[1])
    /\ (pc = "handle_keys" /\ ticks = 0) =>
          \A c \in AllCells, d \in Directions :
              LET m == move([snake EXCEPT !.positions = <<c>>, !.direction = d])
              IN  /\ m.positions[1] = WrappedStep(c, d)
                  /\ m.positions[1][1] >= 0
                  /\ m.positions[1][2] >= 0

\* move() has taken the head over the right or the bottom border
C16_Witness ==
    /\ pc = "obstacle_check"
    /\ \/ /\ snake.direction = RIGHT
          /\ start.snake.positions[1][1] = SCREEN_WIDTH - GRID_SIZE
          /\ snake.positions[1][1] = 0
          /\ snake.positions[1][2] = start.snake.positions[1][2]
       \/ /\ snake.direction = DOWN
          /\ start.snake.positions[1][2] = SCREEN_HEIGHT - GRID_SIZE
          /\ snake.positions[1][2] = 0
          /\ snake.positions[1][1] = start.snake.positions[1][1]

\* C17: no self-overlap at the end of an iteration: the segments of the
\* snake are pairwise distinct cells, so the head is none of positions[1:].
C17_NoSelfOverlap ==
    EndOfTick =>
        \A i, j \in 1 .. Len(snake.positions) :
            i # j => snake.positions[i] # snake.positions[j]

\* a snake of four or more segments has moved and was not reset
C17_Witness ==
    /\ EndOfTick
    /\ ~ Fatal
    /\ Len(snake.positions) >= 4
    /\ Len(start.snake.positions) >= 4

\* C18: the head never rests on an obstacle: at the end of every iteration
\* a snake that has a head has it on a cell without obstacle; an obstacle
\* hit puts the head on (320,240), which holds no obstacle.
C18_HeadOffObstacles ==
    /\ initial_position \notin ObstaclePositions
    /\ (EndOfTick /\ snake.positions # <<>>) =>
          get_head_position(snake) \notin ObstaclePositions

\* the head ran into an obstacle and ends the iteration on the start cell
C18_Witness ==
    /\ EndOfTick
    /\ "obstacle" \in fired
    /\ snake.positions # <<>>
    /\ get_head_position(snake) = initial_position

\* C19 as claimed: in an iteration whose drain yields a quit event nothing
\* has been mutated: positions, direction, length, next_direction and both
\* food positions are those at the end of the iteration before, also when
\* key presses precede the quit event in the drain.
C19_QuitBeforeAnyMutation ==
    pc = "quit" =>
        /\ snake = start.snake
        /\ apple = start.apple
        /\ incorrect_food = start.incorrect_food

\* C19 amended: in an iteration whose drain yields a quit event the loop
\* ends at once, and positions, direction, length and both food positions
\* are those at the end of the iteration before; next_direction is too
\* unless a direction key precedes the quit event in the drain, and then it
\* holds the direction of the last such key.
C19_QuitMutatesOnlyTheBuffer ==
    pc = "quit" =>
        /\ snake.positions = start.snake.positions
        /\ snake.direction = start.snake.direction
        /\ snake.length = start.snake.length
        /\ snake.next_direction \in Directions \cup {start.snake.next_direction}
        /\ apple = start.apple
        /\ incorrect_food = start.incorrect_food
        /\ ~ ENABLED Next
        /\ \A k \in DirectionKeys :
              LET r == handle_keys(start.snake, <<k, "QUIT">>)
              IN  r.quit /\ r.snake = [start.snake EXCEPT !.next_direction = KeyDirection(k)]

\* the loop has ended on a quit event that followed a key press
C19_Witness ==
    /\ pc = "quit"
    /\ snake.next_direction # None
    /\ ticks >= 1

\* C20: placement terminates: under fair sampling every call of
\* randomize_position leaves its retry loop; on exit the position is a cell
\* of the grid without obstacle; and the loop goes round again only when
\* the sample is on an obstacle (and then it always does).
C20_PlacementTerminates ==
    /\ [](pc = "apple_loop" => <>(pc = "food_loop"))
    /\ [](pc = "food_loop" => <>(pc = "placed"))
    /\ [](pc = "food_loop" => (OnGrid(apple) /\ apple \notin ObstaclePositions))
    /\ [](pc = "placed" => (OnGrid(incorrect_food) /\ incorrect_food \notin ObstaclePositions))
    /\ [][(pc = "apple_loop" => (pc' = "apple_loop" <=> apple' \in ObstaclePositions))
          /\ (pc = "food_loop" => (pc' = "food_loop" <=> incorrect_food' \in ObstaclePositions))]_vars

\* both loops went round again in a call made by the game loop and both
\* have ended
C20_Witness ==
    /\ pc = "placed"
    /\ ticks >= 1
    /\ fired = {"apple_retry", "food_retry"}
    /\ apple \notin ObstaclePositions
    /\ incorrect_food \notin ObstaclePositions

====
